---- MODULE Spec2Model ----
(***************************************************************************)
(* Model of SailbotDB (remote_transceiver/src/sailbot_db.cpp): the         *)
(* telemetry persistence layer that writes one Sensors snapshot into six   *)
(* MongoDB collections under one pooled connection, plus the connectivity  *)
(* probe.                                                                  *)
(*                                                                         *)
(* Integers wider than 31 bits are kept as sequences of 16-bit limbs,      *)
(* most significant first: a uint32 is <<hi, lo>>, an int64 is four limbs  *)
(* in two's complement.                                                    *)
(***************************************************************************)
EXTENDS Integers, Sequences, FiniteSets, TLC

\* ---------------------------------------------------------------- bounds
MaxCalls == 2
PoolSize == 2

\* One caller per call, numbered in the order the calls start; two callers
\* are two threads, or one thread calling again after its call returned.
Threads == 1..MaxCalls
Conns == 1..PoolSize
NoConn == 0

\* ------------------------------------------------------- numeric domains
Two16 == 65536
Two15 == 32768

\* static_cast<int64_t>(uint32_t): the value is representable, so the
\* conversion keeps it; on the limbs this is a zero extension.
ToInt64SignExtended(u) ==
    IF u[1] >= Two15 THEN <<Two16 - 1, Two16 - 1, u[1], u[2]>>
                     ELSE <<0, 0, u[1], u[2]>>

ToInt64(u) == <<0, 0, u[1], u[2]>>

\* static_cast<int16_t>(int32_t): keeps the low 16 bits and reads them as
\* two's complement.
ToInt16Saturated(d) ==
    IF d > Two15 - 1 THEN Two15 - 1 ELSE IF d < -Two15 THEN -Two15 ELSE d

ToInt16(d) ==
    LET low == d % Two16
    IN  IF low >= Two15 THEN low - Two16 ELSE low

\* ------------------------------------------------------------ collections
COLLECTION_GPS == "gps"
COLLECTION_AIS_SHIPS == "ais_ships"
COLLECTION_DATA_SENSORS == "data_sensors"
COLLECTION_BATTERIES == "batteries"
COLLECTION_WIND_SENSORS == "wind_sensors"
COLLECTION_LOCAL_PATH == "local_path"

\* The order in which storeNewSensors evaluates its && chain.
SerializerOrder ==
    << COLLECTION_GPS, COLLECTION_AIS_SHIPS, COLLECTION_DATA_SENSORS,
       COLLECTION_BATTERIES, COLLECTION_WIND_SENSORS, COLLECTION_LOCAL_PATH >>

NumSerializers == Len(SerializerOrder)

Collections == { SerializerOrder[i] : i \in 1..NumSerializers }

\* ------------------------------------------------------ document builders
GpsDoc(gps_pb, ts) ==
    [ latitude |-> gps_pb.latitude, longitude |-> gps_pb.longitude,
      speed |-> gps_pb.speed, heading |-> gps_pb.heading, timestamp |-> ts ]

AisShipDoc(ais_ship) ==
    [ id |-> ToInt64(ais_ship.id), latitude |-> ais_ship.latitude,
      longitude |-> ais_ship.longitude, sog |-> ais_ship.sog,
      cog |-> ais_ship.cog, rot |-> ais_ship.rot,
      width |-> ais_ship.width, length |-> ais_ship.length ]

AisDoc(ais_ships_pb, ts) ==
    [ ships |->
          [ i \in 1..Len(ais_ships_pb) |-> AisShipDoc(ais_ships_pb[i]) ],
      timestamp |-> ts ]

GenericSensorDoc(generic) ==
    [ id |-> ToInt64(generic.id), data |-> ToInt64(generic.data) ]

GenericDoc(generic_pb, ts) ==
    [ genericSensors |->
          [ i \in 1..Len(generic_pb) |-> GenericSensorDoc(generic_pb[i]) ],
      timestamp |-> ts ]

BatteryDoc(battery) ==
    [ voltage |-> battery.voltage, current |-> battery.current ]

BatteriesDoc(battery_pb, ts) ==
    [ batteries |->
          [ i \in 1..Len(battery_pb) |-> BatteryDoc(battery_pb[i]) ],
      timestamp |-> ts ]

WindSensorDoc(wind_sensor) ==
    [ speed |-> wind_sensor.speed, direction |-> ToInt16(wind_sensor.direction) ]

WindDoc(wind_pb, ts) ==
    [ windSensors |->
          [ i \in 1..Len(wind_pb) |-> WindSensorDoc(wind_pb[i]) ],
      timestamp |-> ts ]

WaypointDoc(waypoint) ==
    [ latitude |-> waypoint.latitude, longitude |-> waypoint.longitude ]

LocalPathDoc(local_path_pb, ts) ==
    [ waypoints |->
          [ i \in 1..Len(local_path_pb.waypoints) |-> WaypointDoc(local_path_pb.waypoints[i]) ],
      timestamp |-> ts ]

\* ------------------------------------------------------------------ inputs
\* Unsigned 32-bit samples <<hi, lo>>: 0, 1, 65535, 65536, 2^31 - 1, 2^31,
\* 2^32 - 1.
MaxU32 == <<Two16 - 1, Two16 - 1>>

U32Samples ==
    { <<0, 0>>, <<0, 1>>, <<0, Two16 - 1>>, <<1, 0>>, <<Two15 - 1, Two16 - 1>>,
      <<Two15, 0>>, MaxU32 }

\* Wind directions as the protobuf's 32-bit integer, on both sides of the
\* signed 16-bit range.
WindDirections ==
    { -1073741824, -98305, -65537, -65536, -32769, -32768, -1, 0, 1, 359,
      32767, 32768, 40000, 65535, 65536, 98304, 1073741823 }

Timestamps == { "2024-01-01T00:00:00Z", "2024-01-01T00:05:00Z" }

Ship(u) ==
    [ id |-> u, latitude |-> "1.0", longitude |-> "2.0", sog |-> "3.0",
      cog |-> "4.0", rot |-> "5.0", width |-> "6.0", length |-> "7.0" ]

NoSnapshot ==
    [ gps |-> [ latitude |-> "0.0", longitude |-> "0.0", speed |-> "0.0",
                heading |-> "0.0" ],
      ais_ships |-> <<>>, data_sensors |-> <<>>, batteries |-> <<>>,
      wind_sensors |-> <<>>, local_path_data |-> [ waypoints |-> <<>> ] ]

\* One GPS reading and one AIS ship, every other list empty.
ExampleSnapshot ==
    [ gps |-> [ latitude |-> "49.1", longitude |-> "-123.1", speed |-> "5.0",
                heading |-> "180.0" ],
      ais_ships |-> << Ship(MaxU32) >>,
      data_sensors |-> <<>>, batteries |-> <<>>, wind_sensors |-> <<>>,
      local_path_data |-> [ waypoints |-> <<>> ] ]

\* Every category populated.
FullSnapshot ==
    [ gps |-> [ latitude |-> "48.5", longitude |-> "-125.0", speed |-> "2.5",
                heading |-> "90.0" ],
      ais_ships |-> << Ship(<<0, 1>>), Ship(<<Two15, 0>>) >>,
      data_sensors |-> << [ id |-> <<0, 7>>, data |-> MaxU32 ] >>,
      batteries |-> << [ voltage |-> "12.0", current |-> "1.5" ],
                       [ voltage |-> "11.5", current |-> "-0.5" ] >>,
      wind_sensors |-> << [ speed |-> "10.0", direction |-> 359 ],
                          [ speed |-> "11.0", direction |-> 40000 ] >>,
      local_path_data |->
          [ waypoints |-> << [ latitude |-> "48.6", longitude |-> "-125.1" ] >> ] ]

Snapshots == { ExampleSnapshot, FullSnapshot }

\* One ship, one generic sensor and one wind sensor built from the samples.
NumericSnapshot(u, d) ==
    [ gps |-> [ latitude |-> "49.1", longitude |-> "-123.1", speed |-> "5.0",
                heading |-> "180.0" ],
      ais_ships |-> << Ship(u) >>,
      data_sensors |-> << [ id |-> u, data |-> <<u[2], u[1]>> ] >>,
      batteries |-> <<>>,
      wind_sensors |-> << [ speed |-> "10.0", direction |-> d ] >>,
      local_path_data |-> [ waypoints |-> <<>> ] ]

NumericSnapshots == { NumericSnapshot(u, d) : u \in U32Samples, d \in WindDirections }

\* ------------------------------------------------------------------- state
VARIABLES
    pc,       \* per caller: "idle" (before and after its call), "store"
              \* (inside storeNewSensors, holding the lease) or "probe"
              \* (inside testConnection, holding the lease)
    entry,    \* per caller: the pooled connection its lease holds, or NoConn
    callId,   \* per caller: index in calls of its call, 0 before it starts
    log,      \* per caller: the steps its call has performed, in order
    result,   \* per caller: how its call ended: "true", "false", "fault"
              \* (an exception left the call), "none" while it has not
    calls,    \* the arguments of every call started so far
    db        \* per collection: the documents inserted, each tagged with
              \* the call that inserted it

vars == << pc, entry, callId, log, result, calls, db >>

\* The arguments of the call of caller t.
sensors_pb(t) == calls[callId[t]].sensors_pb

timestampOfLatestCall(t) == calls[Len(calls)].new_info.timestamp_

timestamp(t) == calls[callId[t]].new_info.timestamp_

Init ==
    /\ pc = [ t \in Threads |-> "idle" ]
    /\ entry = [ t \in Threads |-> NoConn ]
    /\ callId = [ t \in Threads |-> 0 ]
    /\ log = [ t \in Threads |-> <<>> ]
    /\ result = [ t \in Threads |-> "none" ]
    /\ calls = <<>>
    /\ db = [ c \in Collections |-> {} ]

\* ------------------------------------------------------------ pool, lease
\* pool_->acquire() hands out a connection no other lease holds. The
\* connections are interchangeable, so the one handed out is taken to be the
\* lowest-numbered free one.
FreeConnsShared == Conns

FreeConns == Conns \ { entry[t] : t \in Threads }

\* The mongocxx::pool::entry is a local of the call: leaving the function,
\* by return or by a propagating exception, destroys it and gives the
\* connection back to the pool.
EntryAtScopeExitLeaky(t, r) ==
    IF r = "fault" THEN entry ELSE [ entry EXCEPT ![t] = NoConn ]

EntryAtScopeExit(t, r) == [ entry EXCEPT ![t] = NoConn ]

Step(name, outcome, written) ==
    [ step |-> name, outcome |-> outcome, written |-> written ]

\* insert_one: an engaged optional when the store acknowledges the write; an
\* empty one when the write is unacknowledged, in which case the document may
\* or may not have reached the collection; or an exception, the insert having
\* failed.
InsertOutcomes ==
    { [ outcome |-> "ack", written |-> TRUE ],
      [ outcome |-> "unack", written |-> TRUE ],
      [ outcome |-> "unack", written |-> FALSE ],
      [ outcome |-> "throw", written |-> FALSE ] }

\* ------------------------------------------------------- storeNewSensors
\* The <<sensors_pb, timestamp>> pairs callers pass: each snapshot under its
\* own receipt time.
StoreArgs ==
    { << ExampleSnapshot, "2024-01-01T00:00:00Z" >>,
      << FullSnapshot, "2024-01-01T00:05:00Z" >> }

\* Entry of storeNewSensors: the arguments are bound and the lease is
\* acquired; acquire() blocks while no connection is free and may throw.
storeNewSensors(t) ==
    /\ pc[t] = "idle"
    /\ t = Len(calls) + 1
    /\ \E a \in StoreArgs :
          calls' = Append(calls, [ op |-> "storeNewSensors", sensors_pb |-> a[1],
                                   new_info |-> [ timestamp_ |-> a[2] ] ])
    /\ callId' = [ callId EXCEPT ![t] = Len(calls) + 1 ]
    /\ \/ \E c \in FreeConns :
             /\ \A other \in FreeConns : c <= other
             /\ entry' = [ entry EXCEPT ![t] = c ]
             /\ pc' = [ pc EXCEPT ![t] = "store" ]
             /\ log' = [ log EXCEPT ![t] = << Step("acquire", "ok", FALSE) >> ]
             /\ result' = [ result EXCEPT ![t] = "none" ]
       \/ /\ entry' = entry
          /\ pc' = pc
          /\ log' = [ log EXCEPT ![t] = << Step("acquire", "throw", FALSE) >> ]
          /\ result' = [ result EXCEPT ![t] = "fault" ]
    /\ UNCHANGED db

\* collection.insert_one(doc): the collection gains the document and keeps
\* every document it had.
InsertOneReplacing(coll, d) == [ db EXCEPT ![coll] = { d } ]

InsertOneSkippingEmpty(coll, d) ==
    LET empty ==
          CASE coll = COLLECTION_GPS -> FALSE
            [] coll = COLLECTION_AIS_SHIPS -> d.doc.ships = <<>>
            [] coll = COLLECTION_DATA_SENSORS -> d.doc.genericSensors = <<>>
            [] coll = COLLECTION_BATTERIES -> d.doc.batteries = <<>>
            [] coll = COLLECTION_WIND_SENSORS -> d.doc.windSensors = <<>>
            [] coll = COLLECTION_LOCAL_PATH -> d.doc.waypoints = <<>>
    IN  IF empty THEN db ELSE [ db EXCEPT ![coll] = @ \cup { d } ]

InsertOne(coll, d) == [ db EXCEPT ![coll] = @ \cup { d } ]

\* a && b: b is evaluated only when a was true.
ChainContinuesEager(ok, k) == k < NumSerializers

ChainContinues(ok, k) == ok /\ k < NumSerializers

\* Value of the && chain over the serializers evaluated.
ChainValueIgnoringAck(lg) == "true"

ChainValue(lg) ==
    IF \A i \in 2..Len(lg) : lg[i].outcome = "ack" THEN "true" ELSE "false"

\* The k-th serializer of the chain, run by caller t, building document doc:
\* one insert_one into its collection, then the chain either goes on to the
\* next serializer or storeNewSensors is left.
Serializer(t, k, doc) ==
    /\ pc[t] = "store"
    /\ Len(log[t]) = k
    /\ \E o \in InsertOutcomes :
          LET coll == SerializerOrder[k]
              lg == Append(log[t], Step(coll, o.outcome, o.written))
              r == IF o.outcome = "throw" THEN "fault" ELSE ChainValue(lg)
          IN  /\ db' = IF o.written
                         THEN InsertOne(coll, [ call |-> callId[t], doc |-> doc ])
                         ELSE db
              /\ log' = [ log EXCEPT ![t] = lg ]
              /\ IF o.outcome # "throw" /\ ChainContinues(o.outcome = "ack", k)
                   THEN UNCHANGED << pc, entry, result >>
                   ELSE /\ pc' = [ pc EXCEPT ![t] = "idle" ]
                        /\ entry' = EntryAtScopeExit(t, r)
                        /\ result' = [ result EXCEPT ![t] = r ]
    /\ UNCHANGED << callId, calls >>

storeGps(t) ==
    /\ pc[t] = "store"
    /\ Serializer(t, 1, GpsDoc(sensors_pb(t).gps, timestamp(t)))

storeAis(t) ==
    /\ pc[t] = "store"
    /\ Serializer(t, 2, AisDoc(sensors_pb(t).ais_ships, timestamp(t)))

storeGenericSensors(t) ==
    /\ pc[t] = "store"
    /\ Serializer(t, 3, GenericDoc(sensors_pb(t).data_sensors, timestamp(t)))

storeBatteries(t) ==
    /\ pc[t] = "store"
    /\ Serializer(t, 4, BatteriesDoc(sensors_pb(t).batteries, timestamp(t)))

storeWindSensors(t) ==
    /\ pc[t] = "store"
    /\ Serializer(t, 5, WindDoc(sensors_pb(t).wind_sensors, timestamp(t)))

storePathSensors(t) ==
    /\ pc[t] = "store"
    /\ Serializer(t, 6, LocalPathDoc(sensors_pb(t).local_path_data, timestamp(t)))

\* --------------------------------------------------------- testConnection
\* Entry of testConnection: the ping command is built and the lease is
\* acquired, outside the try block.
testConnection(t) ==
    /\ pc[t] = "idle"
    /\ t = Len(calls) + 1
    /\ calls' = Append(calls, [ op |-> "testConnection", sensors_pb |-> NoSnapshot,
                                new_info |-> [ timestamp_ |-> "" ] ])
    /\ callId' = [ callId EXCEPT ![t] = Len(calls) + 1 ]
    /\ \/ \E c \in FreeConns :
             /\ \A other \in FreeConns : c <= other
             /\ entry' = [ entry EXCEPT ![t] = c ]
             /\ pc' = [ pc EXCEPT ![t] = "probe" ]
             /\ log' = [ log EXCEPT ![t] = << Step("acquire", "ok", FALSE) >> ]
             /\ result' = [ result EXCEPT ![t] = "none" ]
       \/ /\ entry' = entry
          /\ pc' = pc
          /\ log' = [ log EXCEPT ![t] = << Step("acquire", "throw", FALSE) >> ]
          /\ result' = [ result EXCEPT ![t] = "fault" ]
    /\ UNCHANGED db

\* (*entry)[db_name_], still outside the try block.
getDatabase(t) ==
    /\ pc[t] = "probe"
    /\ Len(log[t]) = 1
    /\ \/ /\ log' = [ log EXCEPT ![t] = Append(@, Step("database", "ok", FALSE)) ]
          /\ UNCHANGED << pc, entry, result >>
       \/ /\ log' = [ log EXCEPT ![t] = Append(@, Step("database", "throw", FALSE)) ]
          /\ pc' = [ pc EXCEPT ![t] = "idle" ]
          /\ entry' = EntryAtScopeExit(t, "fault")
          /\ result' = [ result EXCEPT ![t] = "fault" ]
    /\ UNCHANGED << callId, calls, db >>

\* The try block: run_command returns, or throws and the handler turns the
\* exception into false.
PingResultSwapped(o) == IF o = "ok" THEN "false" ELSE "true"

PingResult(o) == IF o = "ok" THEN "true" ELSE "false"

run_command(t) ==
    /\ pc[t] = "probe"
    /\ Len(log[t]) = 2
    /\ \E o \in { "ok", "throw" } :
          /\ log' = [ log EXCEPT ![t] = Append(@, Step("run_command", o, FALSE)) ]
          /\ pc' = [ pc EXCEPT ![t] = "idle" ]
          /\ entry' = EntryAtScopeExit(t, PingResult(o))
          /\ result' = [ result EXCEPT ![t] = PingResult(o) ]
    /\ UNCHANGED << callId, calls, db >>

\* ---------------------------------------------------------- specification
Next ==
    \E t \in Threads :
        \/ storeNewSensors(t)
        \/ storeGps(t)
        \/ storeAis(t)
        \/ storeGenericSensors(t)
        \/ storeBatteries(t)
        \/ storeWindSensors(t)
        \/ storePathSensors(t)
        \/ testConnection(t)
        \/ getDatabase(t)
        \/ run_command(t)

Spec == Init /\ [][Next]_vars

\* A single storeNewSensors call, by caller 1, just after its lease was
\* acquired, over the numeric samples.
NumericArgs == NumericSnapshots \X Timestamps

InitNumeric ==
    /\ pc = [ t \in Threads |-> IF t = 1 THEN "store" ELSE "idle" ]
    /\ entry = [ t \in Threads |-> IF t = 1 THEN 1 ELSE NoConn ]
    /\ callId = [ t \in Threads |-> IF t = 1 THEN 1 ELSE 0 ]
    /\ log = [ t \in Threads |->
                 IF t = 1 THEN << Step("acquire", "ok", FALSE) >> ELSE <<>> ]
    /\ result = [ t \in Threads |-> "none" ]
    /\ \E a \in NumericArgs :
          calls = << [ op |-> "storeNewSensors", sensors_pb |-> a[1],
                       new_info |-> [ timestamp_ |-> a[2] ] ] >>
    /\ db = [ c \in Collections |-> {} ]

NextNumeric ==
    \/ storeGps(1)
    \/ storeAis(1)
    \/ storeGenericSensors(1)
    \/ storeBatteries(1)
    \/ storeWindSensors(1)
    \/ storePathSensors(1)

SpecNumeric == InitNumeric /\ [][NextNumeric]_vars

\* ------------------------------------------------------------- properties
\* C1: in every storeNewSensors call the serializers invoked form a prefix of
\* the fixed order gps, ais_ships, data_sensors, batteries, wind_sensors,
\* local_path; a serializer is invoked only after every earlier one reported
\* an acknowledged insert, and the call leaves no document in the collection
\* of a serializer it did not invoke.
C1_PrefixShortCircuit ==
    \A t \in Threads :
        (callId[t] # 0 /\ calls[callId[t]].op = "storeNewSensors") =>
            /\ Len(log[t]) <= NumSerializers + 1
            /\ \A i \in 2..Len(log[t]) :
                  /\ log[t][i].step = SerializerOrder[i - 1]
                  /\ \A j \in 2..(i - 1) : log[t][j].outcome = "ack"
            /\ \A k \in 1..NumSerializers :
                  (\E d \in db[SerializerOrder[k]] : d.call = callId[t])
                      => Len(log[t]) >= k + 1

\* A call that stopped at an unacknowledged GPS insert.
C1_Witness ==
    \E t \in Threads :
        /\ callId[t] # 0 /\ calls[callId[t]].op = "storeNewSensors"
        /\ pc[t] = "idle" /\ result[t] = "false"
        /\ Len(log[t]) = 2 /\ log[t][2].outcome = "unack"

\* C2: a finished storeNewSensors call returned true only if all six inserts
\* were attempted and acknowledged (and their documents are in the store);
\* with an unacknowledged insert it returned false; with an insert or the
\* acquire raising a fault it ended with the fault.
C2_NoFalseSuccess ==
    \A t \in Threads :
        (callId[t] # 0 /\ calls[callId[t]].op = "storeNewSensors" /\ pc[t] = "idle") =>
            /\ result[t] \in { "true", "false", "fault" }
            /\ result[t] = "true" =>
                  /\ Len(log[t]) = NumSerializers + 1
                  /\ \A k \in 1..NumSerializers :
                        /\ log[t][k + 1].step = SerializerOrder[k]
                        /\ log[t][k + 1].outcome = "ack"
                        /\ \E d \in db[SerializerOrder[k]] : d.call = callId[t]
            /\ (\E i \in 1..Len(log[t]) : log[t][i].outcome = "unack")
                  => result[t] = "false"
            /\ (\E i \in 1..Len(log[t]) : log[t][i].outcome = "throw")
                  => result[t] = "fault"

\* A call that failed on an unacknowledged insert after an acknowledged one.
C2_Witness ==
    \E t \in Threads :
        /\ callId[t] # 0 /\ calls[callId[t]].op = "storeNewSensors"
        /\ pc[t] = "idle" /\ result[t] = "false"
        /\ Len(log[t]) >= 3 /\ log[t][Len(log[t])].outcome = "unack"

\* C3: the documents a storeNewSensors call inserted with acknowledgment stay
\* in their collections when a later serializer of the call fails and after
\* the call has returned.
C3_PartialPersistence ==
    \A t \in Threads :
        (callId[t] # 0 /\ calls[callId[t]].op = "storeNewSensors") =>
            \A i \in 2..Len(log[t]) :
                log[t][i].outcome = "ack" =>
                    \E d \in db[SerializerOrder[i - 1]] :
                        /\ d.call = callId[t]
                        /\ d.doc.timestamp = calls[callId[t]].new_info.timestamp_

\* C3: no step removes or changes a document already written.
C3_AppendOnly ==
    [][ \A c \in Collections : db[c] \subseteq db'[c] ]_vars

\* C3: partial persistence without rollback, both parts.
C3_NoRollback == []C3_PartialPersistence /\ C3_AppendOnly

\* GPS acknowledged, AIS failed, the call over, the gps document still there
\* next to a document of another call.
C3_Witness ==
    \E t \in Threads :
        /\ callId[t] # 0 /\ calls[callId[t]].op = "storeNewSensors"
        /\ pc[t] = "idle" /\ result[t] \in { "false", "fault" }
        /\ Len(log[t]) = 3 /\ log[t][2].outcome = "ack"
        /\ \E d \in db[COLLECTION_GPS] : d.call = callId[t]
        /\ \E d \in db[COLLECTION_GPS] : d.call # callId[t]

\* C4: a finished testConnection call returned a boolean whatever step
\* failed (acquiring the lease, obtaining the database handle, the ping), and
\* returned true only when the ping command succeeded.
C4_ProbeNeverThrows ==
    \A t \in Threads :
        (callId[t] # 0 /\ calls[callId[t]].op = "testConnection" /\ pc[t] = "idle") =>
            /\ result[t] \in { "true", "false" }
            /\ result[t] = "true" =>
                  /\ Len(log[t]) = 3
                  /\ log[t][3] = Step("run_command", "ok", FALSE)

\* C5: every document in every collection carries the timestamp of the call
\* that inserted it.
C5_TimestampOfCall ==
    \A c \in Collections :
        \A d \in db[c] :
            /\ d.call \in 1..Len(calls)
            /\ calls[d.call].op = "storeNewSensors"
            /\ d.doc.timestamp = calls[d.call].new_info.timestamp_

\* Two calls with different timestamps have both written, one of them to all
\* six collections.
C5_Witness ==
    /\ \E d1 \in db[COLLECTION_GPS], d2 \in db[COLLECTION_GPS] :
          d1.doc.timestamp # d2.doc.timestamp
    /\ \E i \in 1..Len(calls) :
          \A c \in Collections : \E d \in db[c] : d.call = i

\* C6 as stated: a fully acknowledged call on the snapshot with one GPS
\* reading, one AIS ship and empty lists elsewhere wrote exactly two
\* documents, to gps and ais_ships, and none to the other four collections.
C6_TwoDocuments ==
    \A t \in Threads :
        ( /\ callId[t] # 0 /\ calls[callId[t]].op = "storeNewSensors"
          /\ calls[callId[t]].sensors_pb = ExampleSnapshot
          /\ pc[t] = "idle" /\ result[t] = "true" ) =>
            \A c \in Collections :
                Cardinality({ d \in db[c] : d.call = callId[t] }) =
                    IF c \in { COLLECTION_GPS, COLLECTION_AIS_SHIPS } THEN 1 ELSE 0

\* C6 amended: such a call wrote exactly six documents, one to each
\* collection; those in data_sensors, batteries, wind_sensors and local_path
\* hold an empty array and the call's timestamp.
C6_SixDocuments ==
    \A t \in Threads :
        ( /\ callId[t] # 0 /\ calls[callId[t]].op = "storeNewSensors"
          /\ calls[callId[t]].sensors_pb = ExampleSnapshot
          /\ pc[t] = "idle" /\ result[t] = "true" ) =>
            LET mine(c) == { d.doc : d \in { e \in db[c] : e.call = callId[t] } }
                ts == calls[callId[t]].new_info.timestamp_
            IN  /\ \A c \in Collections : Cardinality(mine(c)) = 1
                /\ \A x \in mine(COLLECTION_GPS) :
                      x.latitude = "49.1" /\ x.timestamp = ts
                /\ \A x \in mine(COLLECTION_AIS_SHIPS) :
                      Len(x.ships) = 1 /\ x.timestamp = ts
                /\ mine(COLLECTION_DATA_SENSORS) =
                      { [ genericSensors |-> <<>>, timestamp |-> ts ] }
                /\ mine(COLLECTION_BATTERIES) =
                      { [ batteries |-> <<>>, timestamp |-> ts ] }
                /\ mine(COLLECTION_WIND_SENSORS) =
                      { [ windSensors |-> <<>>, timestamp |-> ts ] }
                /\ mine(COLLECTION_LOCAL_PATH) =
                      { [ waypoints |-> <<>>, timestamp |-> ts ] }

\* A fully acknowledged call on that snapshot has returned true.
C6_Witness ==
    \E t \in Threads :
        /\ callId[t] # 0 /\ calls[callId[t]].op = "storeNewSensors"
        /\ calls[callId[t]].sensors_pb = ExampleSnapshot
        /\ pc[t] = "idle" /\ result[t] = "true"

\* C7: no connection is leased to two calls at once, and every document holds
\* exactly the readings and the timestamp of the call that inserted it.
C7_IsolatedLeases ==
    /\ \A t1 \in Threads, t2 \in Threads :
          (t1 # t2 /\ entry[t1] # NoConn) => entry[t1] # entry[t2]
    /\ \A t \in Threads : (pc[t] # "idle") <=> (entry[t] \in Conns)
    /\ \A c \in Collections :
          \A d \in db[c] :
              LET pb == calls[d.call].sensors_pb
                  ts == calls[d.call].new_info.timestamp_
              IN  d.doc =
                    CASE c = COLLECTION_GPS -> GpsDoc(pb.gps, ts)
                      [] c = COLLECTION_AIS_SHIPS -> AisDoc(pb.ais_ships, ts)
                      [] c = COLLECTION_DATA_SENSORS -> GenericDoc(pb.data_sensors, ts)
                      [] c = COLLECTION_BATTERIES -> BatteriesDoc(pb.batteries, ts)
                      [] c = COLLECTION_WIND_SENSORS -> WindDoc(pb.wind_sensors, ts)
                      [] c = COLLECTION_LOCAL_PATH -> LocalPathDoc(pb.local_path_data, ts)

\* Two storeNewSensors calls with different arguments are in progress at the
\* same time and each has inserted its gps document.
C7_Witness ==
    \E t1 \in Threads, t2 \in Threads :
        /\ t1 # t2
        /\ pc[t1] = "store" /\ pc[t2] = "store"
        /\ calls[callId[t1]] # calls[callId[t2]]
        /\ \E d \in db[COLLECTION_GPS] : d.call = callId[t1]
        /\ \E d \in db[COLLECTION_GPS] : d.call = callId[t2]

\* C8: a caller outside a call holds no lease, whichever way its call ended,
\* so with every call completed all connections are back in the pool.
C8_LeaseReleased ==
    /\ \A t \in Threads : pc[t] = "idle" => entry[t] = NoConn
    /\ (\A t \in Threads : pc[t] = "idle") => FreeConns = Conns

\* Calls that held a lease have ended in each of the three ways.
C8_Witness ==
    /\ \A t \in Threads : pc[t] = "idle" /\ Len(log[t]) >= 2
    /\ \E t \in Threads : result[t] = "fault"
    /\ \E t \in Threads : result[t] \in { "true", "false" }

\* C9: every persisted wind direction is the signed 16-bit wrap
\* ((d + 32768) mod 65536) - 32768 of its source value d, unchanged when d is
\* within [-32768, 32767]; an out-of-range d does not make the serializer
\* report failure.
C9_DirectionWraps ==
    /\ \A x \in db[COLLECTION_WIND_SENSORS] :
          LET src == calls[x.call].sensors_pb.wind_sensors
          IN  /\ Len(x.doc.windSensors) = Len(src)
              /\ \A i \in 1..Len(src) :
                    LET d == src[i].direction
                        stored == x.doc.windSensors[i].direction
                    IN  /\ stored = ((d + 32768) % 65536) - 32768
                        /\ stored \in -32768..32767
                        /\ d \in -32768..32767 => stored = d
    /\ \A t \in Threads :
          ( /\ callId[t] # 0 /\ calls[callId[t]].op = "storeNewSensors"
            /\ Len(log[t]) = NumSerializers + 1
            /\ \A i \in 2..Len(log[t]) : log[t][i].outcome = "ack" )
              => result[t] = "true"

\* An out-of-range direction was stored by a call that returned true.
C9_Witness ==
    \E t \in Threads :
        /\ pc[t] = "idle" /\ result[t] = "true"
        /\ \E x \in db[COLLECTION_WIND_SENSORS] :
              /\ x.call = callId[t]
              /\ \E i \in 1..Len(x.doc.windSensors) :
                    calls[x.call].sensors_pb.wind_sensors[i].direction
                        \notin -32768..32767

\* C10: every persisted AIS ship id, generic-sensor id and generic-sensor data
\* value is a non-negative 64-bit value whose upper 32 bits are zero and
\* whose lower 32 bits are the source's unsigned 32-bit value.
C10_WidenedUnchanged ==
    LET same(x, u) ==
          /\ Len(x) = 4 /\ x[1] < 32768
          /\ x[1] = 0 /\ x[2] = 0 /\ x[3] = u[1] /\ x[4] = u[2]
    IN  /\ \A x \in db[COLLECTION_AIS_SHIPS] :
              LET src == calls[x.call].sensors_pb.ais_ships
              IN  /\ Len(x.doc.ships) = Len(src)
                  /\ \A i \in 1..Len(src) : same(x.doc.ships[i].id, src[i].id)
        /\ \A x \in db[COLLECTION_DATA_SENSORS] :
              LET src == calls[x.call].sensors_pb.data_sensors
              IN  /\ Len(x.doc.genericSensors) = Len(src)
                  /\ \A i \in 1..Len(src) :
                        /\ same(x.doc.genericSensors[i].id, src[i].id)
                        /\ same(x.doc.genericSensors[i].data, src[i].data)

\* Ship id 4294967295 and a generic-sensor value of 2^31 or more are stored.
C10_Witness ==
    /\ \E x \in db[COLLECTION_AIS_SHIPS] :
          /\ calls[x.call].sensors_pb.ais_ships[1].id = MaxU32
          /\ x.doc.ships[1].id = <<0, 0, 65535, 65535>>
    /\ \E x \in db[COLLECTION_DATA_SENSORS] :
          calls[x.call].sensors_pb.data_sensors[1].data[1] >= 32768

====
